---------------------------- MODULE Spec2Model ----------------------------
(***************************************************************************)
(* A model of the RoPP HTTP request/response adapter (include/request.hpp) *)
(* and of the user facade built on it (RoPP/user.cpp).                     *)
(*                                                                         *)
(* Strings are sequences of one-character strings, so that find, substr,   *)
(* getline and tolower are computed character by character as the C++      *)
(* standard library computes them.  Maps (std::map) are functions whose    *)
(* domain is the set of keys present.                                      *)
(***************************************************************************)
EXTENDS Integers, Sequences, FiniteSets, TLC

VARIABLES
    \* ---- one Request object and the engine session it drives ----
    life,         \* "alive" | "destroyed" | "crashed" (process aborted)
    headers,      \* Request::headers
    cookies,      \* Request::cookies
    curl,         \* Request::curl: Indet (never assigned), 0 (nullptr) or a handle
    curl_headers, \* Request::curl_headers: 0 (nullptr) or a list id
    slists,       \* engine header lists ever allocated: id -> [items, frees]
    created,      \* number of sessions curl_easy_init has created (ids 1..created)
    cleaned,      \* arguments curl_easy_cleanup has been called with, in order
    engine,       \* options of the session `curl` points at
    sent,         \* the request the engine sent at the latest dispatch
    prevHeaders,  \* the header list the engine sent at the dispatch before
    nDispatch,    \* dispatches made so far
    unsetUse,     \* an engine call was made with a handle initalize did not set
    outcome,      \* how the latest dispatch ended: "none" | "failed" | "ok" | "threw"
    \* ---- one run of Request::execute on a received reply ----
    pc,           \* "ready" | "done"
    input,        \* the reply as the server composed it (structured)
    threw,        \* execute left by an exception
    response,     \* the Response execute returned
    \* ---- one facade call on a user handle ----
    fpc,          \* "idle" | "returned"
    fop,          \* the operation called
    freply,       \* what the engine answered
    fresult       \* what the caller received

reqVars == <<life, headers, cookies, curl, curl_headers, slists, created, cleaned,
             engine, sent, prevHeaders, nDispatch, unsetUse, outcome>>
parseVars == <<pc, input, threw, response>>
facVars == <<fpc, fop, freply, fresult>>
vars == <<reqVars, parseVars, facVars>>

-----------------------------------------------------------------------------
(* Bounds of the model *)

MaxLines == 2      \* header lines in a received block
MaxDispatch == 2   \* dispatches on one Request
MaxInit == 2       \* sessions curl_easy_init creates for one Request

-----------------------------------------------------------------------------
(* Characters and strings *)

CR == "\r"
LF == "\n"
SP == " "

Upper == <<"A","B","C","D","E","F","G","H","I","J","K","L","M",
           "N","O","P","Q","R","S","T","U","V","W","X","Y","Z">>
Lower == <<"a","b","c","d","e","f","g","h","i","j","k","l","m",
           "n","o","p","q","r","s","t","u","v","w","x","y","z">>
Digits == <<"0","1","2","3","4","5","6","7","8","9">>

\* std::tolower in the "C" locale
tolower(c) ==
    IF \E i \in 1..26 : Upper[i] = c
    THEN Lower[CHOOSE i \in 1..26 : Upper[i] = c]
    ELSE c

\* std::transform(key.begin(), key.end(), key.begin(), tolower)
LowerStr(s) == [i \in 1..Len(s) |-> tolower(s[i])]

\* std::isspace in the "C" locale
IsSpace(c) == c \in {" ", "\t", "\n", "\r", "\f"}

IsDigit(c) == \E i \in 1..10 : Digits[i] = c
DigitVal(c) == (CHOOSE i \in 1..10 : Digits[i] = c) - 1

\* int index = s.find(c): the 0-based position of the first c, npos read as -1
Find(s, c) ==
    IF \E i \in 1..Len(s) : s[i] = c
    THEN (CHOOSE i \in 1..Len(s) : s[i] = c /\ \A j \in 1..(i-1) : s[j] # c) - 1
    ELSE -1

\* s.substr(pos): pos is 0-based
SubstrFrom(s, pos) == SubSeq(s, pos + 1, Len(s))

\* s.substr(0, n) where n is an int converted to size_t: -1 becomes npos
SubstrTo(s, n) == IF n < 0 THEN s ELSE SubSeq(s, 1, IF n < Len(s) THEN n ELSE Len(s))

\* std::map::operator[]= / erase
MapSet(m, k, v) == [x \in (DOMAIN m) \cup {k} |-> IF x = k THEN v ELSE m[x]]
MapErase(m, k) == [x \in (DOMAIN m) \ {k} |-> m[x]]
EmptyMap == [x \in {} |-> <<>>]

-----------------------------------------------------------------------------
(* std::stringstream and std::getline *)

\* std::stringstream(s): the buffer, the 1-based place of the next character,
\* and the eofbit and failbit
Stream(s) == [buf |-> s, pos |-> 1, eof |-> FALSE, fail |-> FALSE]

\* std::getline(stm, str, delim), `old` being str's content before the call.
\* The sentry fails on a stream that is not good() and leaves str alone;
\* otherwise str is erased and filled up to the delimiter (extracted and
\* dropped) or the end (eofbit); failbit when nothing at all was extracted.
GetLine(stm, delim, old) ==
    IF stm.eof \/ stm.fail
    THEN [stm |-> [stm EXCEPT !.fail = TRUE], str |-> old]
    ELSE LET n == Len(stm.buf)
             hits == {j \in stm.pos..n : stm.buf[j] = delim}
         IN  IF hits # {}
             THEN LET j == CHOOSE h \in hits : \A g \in hits : h <= g
                  IN  [stm |-> [stm EXCEPT !.pos = j + 1],
                       str |-> SubSeq(stm.buf, stm.pos, j - 1)]
             ELSE [stm |-> [stm EXCEPT !.pos = n + 1, !.eof = TRUE,
                                       !.fail = (stm.pos > n)],
                   str |-> SubSeq(stm.buf, stm.pos, n)]

\* the stream's conversion to bool after a getline: !fail()
Good(g) == ~g.stm.fail

-----------------------------------------------------------------------------
(* std::stoi *)

IntMax == 2147483647

\* The digits of s from place i on, accumulated into acc; over is set once the
\* value leaves the range of int (strtol's ERANGE or stoi's own range check).
RECURSIVE StoiDigits(_, _, _, _, _)
StoiDigits(s, i, acc, any, over) ==
    IF i > Len(s) \/ ~IsDigit(s[i])
    THEN [any |-> any, over |-> over, val |-> acc]
    ELSE LET d == DigitVal(s[i])
         IN  IF over \/ acc > (IntMax - d) \div 10
             THEN StoiDigits(s, i + 1, acc, TRUE, TRUE)
             ELSE StoiDigits(s, i + 1, acc * 10 + d, TRUE, over)

\* std::stoi(s): leading white space skipped, an optional sign, then digits up
\* to the first other character.  Throws std::invalid_argument when there is
\* no digit and std::out_of_range when the value does not fit an int.
Stoi(s) ==
    LET ws == {i \in 1..Len(s) : \A j \in 1..i : IsSpace(s[j])}
        start == Cardinality(ws) + 1
        signed == start <= Len(s) /\ s[start] \in {"+", "-"}
        neg == signed /\ s[start] = "-"
        r == StoiDigits(s, IF signed THEN start + 1 ELSE start, 0, FALSE, FALSE)
    IN  IF ~r.any \/ r.over
        THEN [throws |-> TRUE, val |-> 0]
        ELSE [throws |-> FALSE, val |-> IF neg THEN 0 - r.val ELSE r.val]

-----------------------------------------------------------------------------
(* Request::execute: the parse of the received header block *)

CURLE_OK == "CURLE_OK"

\* Response{}: every member value-initialised
EmptyResponse ==
    [curlCode |-> CURLE_OK, code |-> 0, message |-> <<>>, data |-> <<>>,
     headers |-> EmptyMap, cookies |-> EmptyMap]

\* the first line: "get first line" up to response.message = message
ParseStatusLine(block) ==
    LET line == GetLine(Stream(block), LF, <<>>).str
        index == Find(line, SP)
        responsePart == SubstrFrom(line, index + 1)
        index2 == Find(responsePart, SP)
        message == SubstrFrom(responsePart, index2 + 1)
        codeStr == SubstrTo(responsePart, index2)
        code == Stoi(codeStr)
    IN  [throws |-> code.throws, code |-> code.val, message |-> message]

\* a variant that keeps only the first pair of a Set-Cookie value
CookieLoopFirstPair(cookieStream, cks) ==
    LET k == GetLine(cookieStream, "=", <<>>)
    IN  IF ~Good(k)
        THEN cks
        ELSE MapSet(cks, k.str, GetLine(k.stm, ";", <<>>).str)

\* the set-cookie subparser: while (getline(cookieStream, cookie, '=')) ...
RECURSIVE CookieLoop(_, _)
CookieLoop(cookieStream, cks) ==
    LET k == GetLine(cookieStream, "=", <<>>)
    IN  IF ~Good(k)
        THEN cks
        ELSE LET v == GetLine(k.stm, ";", <<>>)
                 skip == GetLine(v.stm, SP, v.str)
             IN  CookieLoop(skip.stm, MapSet(cks, k.str, v.str))

\* one header line: key up to ':', one token up to a space, value up to '\r'
ParseHeaderLine(line) ==
    LET k == GetLine(Stream(line), ":", <<>>)
        s == GetLine(k.stm, SP, <<>>)
        v == GetLine(s.stm, CR, s.str)
    IN  [key |-> LowerStr(k.str), value |-> v.str]

SetCookieKey == <<"s","e","t","-","c","o","o","k","i","e">>

\* the header loop: while (std::getline(ss, line)) ...
RECURSIVE HeaderLoop(_, _, _)
HeaderLoop(ss, hdrs, cks) ==
    LET l == GetLine(ss, LF, <<>>)
    IN  IF ~Good(l)
        THEN [headers |-> hdrs, cookies |-> cks]
        ELSE LET h == ParseHeaderLine(l.str)
                 cks2 == IF h.key = SetCookieKey
                         THEN CookieLoop(Stream(h.value), cks)
                         ELSE cks
             IN  HeaderLoop(l.stm, MapSet(hdrs, h.key, h.value), cks2)

\* Request::execute from the return of curl_easy_perform on: reply is what the
\* engine delivered, [curlCode, headerData, responseData]
Execute(reply) ==
    IF reply.curlCode # CURLE_OK
    THEN [threw |-> FALSE,
          response |-> [EmptyResponse EXCEPT !.curlCode = reply.curlCode]]
    ELSE LET st == ParseStatusLine(reply.headerData)
             hl == HeaderLoop(Stream(reply.headerData), EmptyMap, EmptyMap)
         IN  IF st.throws
             THEN [threw |-> TRUE, response |-> EmptyResponse]
             ELSE [threw |-> FALSE,
                   response |-> [curlCode |-> reply.curlCode, code |-> st.code,
                                 message |-> st.message, data |-> reply.responseData,
                                 headers |-> hl.headers, cookies |-> hl.cookies]]

-----------------------------------------------------------------------------
(* Replies as a server composes them, and their wire form *)

\* One segment of a header value: "k=v" (eq) or the bare token k
Seg(k, eq, v) == [k |-> k, eq |-> eq, v |-> v]
Bare(k) == Seg(k, FALSE, <<>>)

\* One header line: a name, ':' followed by a space (sp) or not, and a value
\* made of segments joined by "; "
HLine(name, sp, segs) == [name |-> name, sp |-> sp, segs |-> segs]

RenderSeg(g) == IF g.eq THEN g.k \o <<"=">> \o g.v ELSE g.k

RECURSIVE RenderValue(_)
RenderValue(segs) ==
    IF segs = <<>> THEN <<>>
    ELSE IF Len(segs) = 1 THEN RenderSeg(segs[1])
    ELSE RenderSeg(segs[1]) \o <<";", SP>> \o RenderValue(Tail(segs))

RenderHLine(h) ==
    h.name \o <<":">> \o (IF h.sp THEN <<SP>> ELSE <<>>) \o RenderValue(h.segs)
           \o <<CR, LF>>

\* A status line: "version code reason", "version code" (no reason phrase),
\* or free text that is no status line (wf = FALSE)
StatusWF(ver, code, hasReason, reason) ==
    [wf |-> TRUE, ver |-> ver, code |-> code, hasReason |-> hasReason,
     reason |-> reason, raw |-> <<>>]
StatusRaw(text) ==
    [wf |-> FALSE, ver |-> <<>>, code |-> <<>>, hasReason |-> FALSE,
     reason |-> <<>>, raw |-> text]

RenderStatus(st) ==
    (IF st.wf
     THEN st.ver \o <<SP>> \o st.code
              \o (IF st.hasReason THEN <<SP>> \o st.reason ELSE <<>>)
     ELSE st.raw) \o <<CR, LF>>

RECURSIVE RenderLines(_)
RenderLines(ls) ==
    IF ls = <<>> THEN <<>> ELSE RenderHLine(Head(ls)) \o RenderLines(Tail(ls))

\* The header block the engine hands to the header sink: nothing at all
\* (empty), or the status line, the header lines and, when blank, the empty
\* line that ends the block
RenderBlock(in) ==
    IF in.empty THEN <<>>
    ELSE RenderStatus(in.status) \o RenderLines(in.lines)
             \o (IF in.blank THEN <<CR, LF>> ELSE <<>>)

Http11 == <<"H","T","T","P","/","1",".","1">>
Http2 == <<"H","T","T","P","/","2">>

Statuses ==
    { StatusWF(Http11, <<"2","0","0">>, TRUE, <<"O","K">>),
      StatusWF(Http11, <<"4","0","4">>, TRUE, <<"N","o","t",SP,"F","o","u","n","d">>),
      StatusWF(Http11, <<"2","0","0">>, FALSE, <<>>),
      StatusWF(Http2, <<"2","0","4">>, FALSE, <<>>),
      StatusRaw(Http11),
      StatusRaw(Http11 \o <<SP,"a","b","c",SP,"O","K">>),
      StatusRaw(Http11 \o <<SP,"2","1","4","7","4","8","3","6","4","8",SP,"O","K">>) }

SetCookieName == <<"S","e","t","-","C","o","o","k","i","e">>

HeaderLines ==
    { HLine(<<"F","o","o">>, TRUE, <<Bare(<<"b","a","r">>)>>),
      HLine(<<"F","O","O">>, TRUE, <<Bare(<<"b","a","z">>)>>),
      HLine(SetCookieName, TRUE,
            <<Seg(<<"a">>, TRUE, <<"1">>), Seg(<<"P","a","t","h">>, TRUE, <<"/">>)>>),
      HLine(SetCookieName, TRUE,
            <<Seg(<<"s","i","d">>, TRUE, <<"a","b","c">>),
              Seg(<<"P","a","t","h">>, TRUE, <<"/">>),
              Bare(<<"H","t","t","p","O","n","l","y">>)>>),
      HLine(SetCookieKey, TRUE, <<Seg(<<"a">>, TRUE, <<"2">>)>>),
      HLine(<<"D","a","t","e">>, TRUE, <<Bare(<<"1",":","2">>)>>),
      HLine(<<"X","-","I","n","f","o">>, TRUE, <<Seg(<<"k">>, TRUE, <<"v">>)>>),
      HLine(<<"B","a","r">>, FALSE, <<Bare(<<"x">>)>>) }

LineSeqs == UNION {[1..n -> HeaderLines] : n \in 0..MaxLines}

Inputs ==
    { [empty |-> TRUE, status |-> StatusRaw(<<>>), lines |-> <<>>, blank |-> FALSE] }
    \cup [empty : {FALSE}, status : Statuses, lines : LineSeqs, blank : BOOLEAN]

\* transport codes the engine may return: CURLE_OK, CURLE_COULDNT_RESOLVE_HOST,
\* CURLE_OPERATION_TIMEDOUT
CURLE_COULDNT_RESOLVE_HOST == "CURLE_COULDNT_RESOLVE_HOST"
CURLE_OPERATION_TIMEDOUT == "CURLE_OPERATION_TIMEDOUT"
CURLE_BAD_FUNCTION_ARGUMENT == "CURLE_BAD_FUNCTION_ARGUMENT"
CurlCodes == {CURLE_OK, CURLE_COULDNT_RESOLVE_HOST, CURLE_OPERATION_TIMEDOUT}

-----------------------------------------------------------------------------
(* The Request object: header list, session handle, dispatch *)

\* CURL* curl; has no initialiser: until initalize assigns it its value is
\* indeterminate
Indet == -1

\* the order of the characters used, as in ASCII (std::map iterates by key)
Ascii == <<LF, CR, SP, "-", ".", "/">> \o Digits \o <<":", ";", "=">> \o Upper \o Lower
CharCode(c) == CHOOSE i \in 1..Len(Ascii) : Ascii[i] = c

\* std::less<std::string>
StrLess(a, b) ==
    \/ \E i \in 1..Len(a) :
           /\ i <= Len(b)
           /\ \A j \in 1..(i-1) : a[j] = b[j]
           /\ CharCode(a[i]) < CharCode(b[i])
    \/ Len(a) < Len(b) /\ \A j \in 1..Len(a) : a[j] = b[j]

MinKey(S) == CHOOSE k \in S : \A o \in S \ {k} : StrLess(k, o)

\* for (auto [key, value] : headers) curl_slist_append(key + ": " + value)
RECURSIVE HeaderItems(_)
HeaderItems(hdrs) ==
    IF DOMAIN hdrs = {} THEN <<>>
    ELSE LET k == MinKey(DOMAIN hdrs)
         IN  <<k \o <<":", SP>> \o hdrs[k]>> \o HeaderItems(MapErase(hdrs, k))

CookiePrefix == <<"C","o","o","k","i","e",":",SP>>

\* for (auto [key, value] : cookies) cookie_header += key + "=" + value + "; "
RECURSIVE CookieItems(_)
CookieItems(cks) ==
    IF DOMAIN cks = {} THEN <<>>
    ELSE LET k == MinKey(DOMAIN cks)
         IN  k \o <<"=">> \o cks[k] \o <<";", SP>> \o CookieItems(MapErase(cks, k))

\* curl_slist_free_all(list)
FreeList(heap, id) == [heap EXCEPT ![id].frees = @ + 1, ![id].items = <<>>]

\* a prepareHeaders that keeps appending to the list of the dispatch before
PrepareHeadersAppend(member, heap, hdrs, cks) ==
    LET old == IF member # 0 THEN heap[member].items ELSE <<>>
        heap1 == IF member # 0 THEN FreeList(heap, member) ELSE heap
        items == old \o HeaderItems(hdrs) \o <<CookiePrefix \o CookieItems(cks)>>
    IN  [member |-> Len(heap1) + 1, handed |-> Len(heap1) + 1,
         heap |-> Append(heap1, [items |-> items, frees |-> 0])]

\* a prepareHeaders whose local list is never stored in the member it shadows
PrepareHeadersShadow(member, heap, hdrs, cks) ==
    LET heap1 == IF member # 0 THEN FreeList(heap, member) ELSE heap
        items == HeaderItems(hdrs) \o <<CookiePrefix \o CookieItems(cks)>>
    IN  [member |-> member, handed |-> Len(heap1) + 1,
         heap |-> Append(heap1, [items |-> items, frees |-> 0])]

\* Request::prepareHeaders: free the member's list, build a new list in the
\* local, save it in the member, hand it to the engine.  member is
\* this->curl_headers, heap the lists allocated so far.
PrepareHeaders(member, heap, hdrs, cks) ==
    LET heap1 == IF member # 0 THEN FreeList(heap, member) ELSE heap
        items == HeaderItems(hdrs) \o <<CookiePrefix \o CookieItems(cks)>>
    IN  [member |-> Len(heap1) + 1, handed |-> Len(heap1) + 1,
         heap |-> Append(heap1, [items |-> items, frees |-> 0])]

\* the options of a session as curl_easy_init leaves them: no custom request
\* (""), method GET, no header list
FreshSession == [custom |-> "", httpreq |-> "GET", httpheader |-> 0]
NothingSent == [disp |-> "", arg |-> "", verb |-> "", headers |-> <<>>]

\* Request::prepare on a live session: CURLOPT_HTTPHEADER is the list handed
\* over, and CURLOPT_POSTFIELDS makes the session's method POST
Prepare(opts, handed) == [opts EXCEPT !.httpheader = handed, !.httpreq = "POST"]

\* the option each dispatcher sets after prepare: CURLOPT_POST, CURLOPT_HTTPGET,
\* CURLOPT_CUSTOMREQUEST
SetVerb(opts, disp, arg) ==
    CASE disp = "post" -> [opts EXCEPT !.httpreq = "POST"]
      [] disp = "get" -> [opts EXCEPT !.httpreq = "GET"]
      [] disp = "request" -> [opts EXCEPT !.custom = arg]

\* the method on the wire: the custom request while one is set, else the
\* session's method
WireVerb(opts) == IF opts.custom # "" THEN opts.custom ELSE opts.httpreq

\* the headers a caller sets: X: 1 and Y: 2
Keys == {<<"X">>, <<"Y">>}
HeaderInputs == {<<<<"X">>, <<"1">>>>, <<<<"Y">>, <<"2">>>>}
CookieKeys == {<<"c">>}
CookieVals == {<<"1">>}
Methods == {"DELETE"}
HeaderMaps ==
    {[k \in D |-> (CHOOSE p \in HeaderInputs : p[1] = k)[2]] : D \in SUBSET Keys}

OkBlock ==
    RenderBlock([empty |-> FALSE, blank |-> TRUE, lines |-> <<>>,
                 status |-> StatusWF(Http11, <<"2","0","0">>, TRUE, <<"O","K">>)])

\* what the engine may answer a dispatch with
Replies ==
    { [curlCode |-> CURLE_COULDNT_RESOLVE_HOST, headerData |-> <<>>, responseData |-> <<>>],
      [curlCode |-> CURLE_OK, headerData |-> OkBlock, responseData |-> <<>>],
      [curlCode |-> CURLE_OK, headerData |-> <<>>, responseData |-> <<>>] }

OutcomeOf(r) ==
    IF r.threw THEN "threw"
    ELSE IF r.response.curlCode # CURLE_OK THEN "failed" ELSE "ok"

\* Request(url, data, headers): the caller's headers, no cookies, curl_headers
\* nullptr, curl not set
InitReq ==
    /\ life = "alive" /\ headers \in HeaderMaps /\ cookies = EmptyMap
    /\ curl = Indet /\ curl_headers = 0 /\ slists = <<>>
    /\ created = 0 /\ cleaned = <<>>
    /\ engine = FreshSession /\ sent = NothingSent
    /\ prevHeaders = <<>> /\ nDispatch = 0 /\ unsetUse = FALSE /\ outcome = "none"

reqConfig == <<headers, cookies>>
reqSession == <<curl, created, engine>>
reqWire == <<sent, prevHeaders, nDispatch, unsetUse, outcome>>
others == <<parseVars, facVars>>

\* initalize(): curl_easy_init gives a new session, or nullptr
initalize(ok) ==
    /\ life = "alive"
    /\ IF ok
       THEN /\ created < MaxInit
            /\ created' = created + 1
            /\ curl' = created + 1
            /\ engine' = FreshSession
       ELSE /\ curl' = 0
            /\ UNCHANGED <<created, engine>>
    /\ UNCHANGED <<life, reqConfig, curl_headers, slists, cleaned, reqWire, others>>

InitalizeOk == initalize(TRUE)
InitalizeFails == initalize(FALSE)

set_header(key, value) ==
    /\ life = "alive"
    /\ headers' = MapSet(headers, key, value)
    /\ UNCHANGED <<life, cookies, curl_headers, slists, cleaned, reqSession, reqWire, others>>

remove_header(key) ==
    /\ life = "alive"
    /\ headers' = MapErase(headers, key)
    /\ UNCHANGED <<life, cookies, curl_headers, slists, cleaned, reqSession, reqWire, others>>

set_cookie(key, value) ==
    /\ life = "alive"
    /\ cookies' = MapSet(cookies, key, value)
    /\ UNCHANGED <<life, headers, curl_headers, slists, cleaned, reqSession, reqWire, others>>

remove_cookie(key) ==
    /\ life = "alive"
    /\ cookies' = MapErase(cookies, key)
    /\ UNCHANGED <<life, headers, curl_headers, slists, cleaned, reqSession, reqWire, others>>

\* get(), post(), request(method) on a session initalize created: prepare, the
\* dispatcher's option, execute
DispatchLive(disp, arg) ==
    /\ life = "alive" /\ curl >= 1 /\ nDispatch < MaxDispatch
    /\ LET ph == PrepareHeaders(curl_headers, slists, headers, cookies)
           opts == SetVerb(Prepare(engine, ph.handed), disp, arg)
       IN  /\ curl_headers' = ph.member
           /\ slists' = ph.heap
           /\ engine' = opts
           /\ sent' = [disp |-> disp, arg |-> arg, verb |-> WireVerb(opts),
                       headers |-> ph.heap[opts.httpheader].items]
    /\ prevHeaders' = sent.headers
    /\ nDispatch' = nDispatch + 1
    /\ \E reply \in Replies : outcome' = OutcomeOf(Execute(reply))
    /\ UNCHANGED <<life, reqConfig, curl, created, cleaned, unsetUse, others>>

\* The same on a Request whose curl is nullptr or was never set: every engine
\* call gets that handle.  The engine rejects nullptr with an error code; an
\* indeterminate handle is rejected likewise or the call aborts the process.
DispatchUnset(disp, arg) ==
    /\ life = "alive" /\ curl < 1 /\ nDispatch < MaxDispatch
    /\ unsetUse' = TRUE
    /\ \/ /\ curl = Indet
          /\ life' = "crashed"
          /\ UNCHANGED <<curl_headers, slists, nDispatch, outcome>>
       \/ /\ LET ph == PrepareHeaders(curl_headers, slists, headers, cookies)
             IN  curl_headers' = ph.member /\ slists' = ph.heap
          /\ nDispatch' = nDispatch + 1
          /\ outcome' = "failed"
          /\ UNCHANGED life
    /\ UNCHANGED <<reqConfig, reqSession, cleaned, sent, prevHeaders, others>>

get == DispatchLive("get", "") \/ DispatchUnset("get", "")
post == DispatchLive("post", "") \/ DispatchUnset("post", "")
request == \E m \in Methods : DispatchLive("request", m) \/ DispatchUnset("request", m)

\* ~Request(): free the member's list, then clean up curl when it is not null.
\* An indeterminate curl reads as null, or as a pointer that
\* curl_easy_cleanup is called with (which returns or aborts the process).
Destroy ==
    /\ life = "alive"
    /\ slists' = IF curl_headers # 0 THEN FreeList(slists, curl_headers) ELSE slists
    /\ \/ /\ curl >= 1
          /\ cleaned' = Append(cleaned, curl)
          /\ life' = "destroyed"
       \/ /\ curl = 0
          /\ life' = "destroyed"
          /\ UNCHANGED cleaned
       \/ /\ curl = Indet
          /\ \/ life' = "destroyed" /\ UNCHANGED cleaned
             \/ life' = "destroyed" /\ cleaned' = Append(cleaned, Indet)
             \/ life' = "crashed" /\ cleaned' = Append(cleaned, Indet)
    /\ UNCHANGED <<reqConfig, curl_headers, reqSession, reqWire, others>>

SetHeader == \E p \in HeaderInputs : set_header(p[1], p[2])
RemoveHeader == \E k \in Keys : remove_header(k)
SetCookie == \E k \in CookieKeys, v \in CookieVals : set_cookie(k, v)
RemoveCookie == \E k \in CookieKeys : remove_cookie(k)

Next ==
    \/ InitalizeOk
    \/ InitalizeFails
    \/ SetHeader
    \/ RemoveHeader
    \/ SetCookie
    \/ RemoveCookie
    \/ get
    \/ post
    \/ request
    \/ Destroy

-----------------------------------------------------------------------------
(* Claims about the Request object *)

\* a header list as the dispatch claim describes it: one "<key>: <value>"
\* entry per entry of the map, then one Cookie header
ListMatches(list, hdrs) ==
    /\ Len(list) = Cardinality(DOMAIN hdrs) + 1
    /\ {list[i] : i \in 1..(Len(list) - 1)} = {k \o <<":", SP>> \o hdrs[k] : k \in DOMAIN hdrs}
    /\ SubSeq(list[Len(list)], 1, Len(CookiePrefix)) = CookiePrefix

Emits(list, k) == \E i \in 1..Len(list) : SubSeq(list[i], 1, Len(k) + 1) = k \o <<":">>

\* C1: at every dispatch on an initialized Request the header list handed to
\* the engine is exactly one "<key>: <value>" entry per entry of the header
\* map as it is when the dispatch starts, followed by one Cookie header; no
\* header removed since the dispatch before is emitted again.
C1_HeaderListFromCurrentMap ==
    [][(nDispatch' = nDispatch + 1 /\ curl >= 1)
          => /\ ListMatches(sent'.headers, headers)
             /\ \A k \in Keys : Emits(sent'.headers, k) <=> k \in DOMAIN headers]_vars

\* set X, GET, remove X, set Y, GET: the first list has X and not Y, the
\* second Y and not X
C1_Witness ==
    /\ nDispatch = 2 /\ curl >= 1
    /\ Emits(prevHeaders, <<"X">>) /\ ~Emits(prevHeaders, <<"Y">>)
    /\ Emits(sent.headers, <<"Y">>) /\ ~Emits(sent.headers, <<"X">>)

\* C2: a dispatch on a Request that was not successfully initialized never
\* reaches the engine with the unset session handle.
C2_NoEngineCallOnUnsetHandle == ~unsetUse

\* C4: every header list prepareHeaders allocates is freed exactly once: the
\* only list not yet freed is the one the member points at, none is freed
\* twice, and after destruction none is left.
C4_HeaderListsFreedOnce ==
    \A id \in 1..Len(slists) :
        /\ slists[id].frees <= 1
        /\ slists[id].frees = 0 => (life # "destroyed" /\ curl_headers = id)

C4_Witness ==
    /\ life = "destroyed" /\ Len(slists) >= 2
    /\ \A id \in 1..Len(slists) : slists[id].frees = 1

Releases(h) == Cardinality({i \in 1..Len(cleaned) : cleaned[i] = h})

\* C5: every session initalize created is released exactly once, at the
\* destruction, and the destruction releases nothing initalize did not create.
C5_SessionsReleasedOnce ==
    /\ life = "alive" => cleaned = <<>>
    /\ life = "destroyed" =>
           /\ \A h \in 1..created : Releases(h) = 1
           /\ \A i \in 1..Len(cleaned) : cleaned[i] \in 1..created

\* the verb each dispatcher stands for
DispatcherVerb(disp, arg) ==
    CASE disp = "get" -> "GET" [] disp = "post" -> "POST" [] OTHER -> arg

\* C10: the method of each dispatch is the one of the dispatcher invoked for
\* it (get sends GET, post sends POST, request(m) sends m), whatever
\* dispatchers were used before.
C10_VerbFromDispatcher ==
    sent.disp # "" => sent.verb = DispatcherVerb(sent.disp, sent.arg)

-----------------------------------------------------------------------------
(* One run of execute on a reply *)

\* what a facade call gives its caller: a value of some kind, or an exception
NoResult == [kind |-> "none", int |-> 0, text |-> <<>>]
Thrown == [kind |-> "exception", int |-> 0, text |-> <<>>]

ReqIdle ==
    /\ life = "alive" /\ headers = EmptyMap /\ cookies = EmptyMap
    /\ curl = Indet /\ curl_headers = 0 /\ slists = <<>>
    /\ created = 0 /\ cleaned = <<>>
    /\ engine = FreshSession
    /\ sent = NothingSent
    /\ prevHeaders = <<>> /\ nDispatch = 0 /\ unsetUse = FALSE /\ outcome = "none"

ParseIdle ==
    /\ pc = "ready"
    /\ input = [empty |-> TRUE, status |-> StatusRaw(<<>>), lines |-> <<>>,
                blank |-> FALSE]
    /\ threw = FALSE /\ response = EmptyResponse

FacIdle ==
    /\ fpc = "idle" /\ fop = "" /\ fresult = NoResult
    /\ freply = [initOk |-> TRUE, curlCode |-> CURLE_OK, body |-> <<>>]

InitParse ==
    /\ pc = "ready" /\ input \in Inputs /\ threw = FALSE /\ response = EmptyResponse
    /\ ReqIdle /\ FacIdle

Init == InitReq /\ ParseIdle /\ FacIdle

Spec == Init /\ [][Next]_vars

\* curl_easy_perform returns code; on CURLE_OK the sinks hold the reply
RunExecute(code) ==
    /\ pc = "ready"
    /\ LET r == Execute([curlCode |-> code, headerData |-> RenderBlock(input),
                         responseData |-> <<>>])
       IN  threw' = r.threw /\ response' = r.response
    /\ pc' = "done"
    /\ UNCHANGED <<input, reqVars, facVars>>

ExecuteOk == RunExecute(CURLE_OK)
ExecuteFailed == \E code \in CurlCodes \ {CURLE_OK} : RunExecute(code)

NextParse == ExecuteOk \/ ExecuteFailed

SpecParse == InitParse /\ [][NextParse]_vars

-----------------------------------------------------------------------------
(* What the reply says, read off its structure (not off its wire form) *)

RECURSIVE DecValue(_)
DecValue(ds) ==
    IF ds = <<>> THEN 0
    ELSE 10 * DecValue(SubSeq(ds, 1, Len(ds) - 1)) + DigitVal(ds[Len(ds)])

IsSetCookie(h) == LowerStr(h.name) = SetCookieKey

\* a value the cookie claim covers: "k=v" segments, a bare token only last
CookieShaped(h) == h.sp /\ \A j \in 1..(Len(h.segs) - 1) : h.segs[j].eq

\* the places <<line, segment>> of the segments of Set-Cookie lines
CookiePlaces(ls) ==
    UNION {{<<i, j>> : j \in 1..Len(ls[i].segs)} :
               i \in {n \in 1..Len(ls) : IsSetCookie(ls[n])}}

Later(p, q) == p[1] > q[1] \/ (p[1] = q[1] /\ p[2] >= q[2])

\* cookies[k] = v for every segment k=v (a bare token k has the empty value),
\* the last segment naming k deciding
ExpectedCookies(ls) ==
    LET places == CookiePlaces(ls)
        keys == {ls[p[1]].segs[p[2]].k : p \in places}
        last(k) == CHOOSE p \in places :
                       /\ ls[p[1]].segs[p[2]].k = k
                       /\ \A q \in places : ls[q[1]].segs[q[2]].k = k => Later(p, q)
    IN  [k \in keys |-> LET g == ls[last(k)[1]].segs[last(k)[2]]
                        IN  IF g.eq THEN g.v ELSE <<>>]

\* headers[lowercased name] = value of the name's last line
ExpectedHeaders(ls) ==
    LET names == {LowerStr(ls[i].name) : i \in 1..Len(ls)}
        last(n) == CHOOSE i \in 1..Len(ls) :
                       /\ LowerStr(ls[i].name) = n
                       /\ \A j \in 1..Len(ls) : LowerStr(ls[j].name) = n => j <= i
    IN  [n \in names |-> RenderValue(ls[last(n)].segs)]

Parsed == pc = "done" /\ response.curlCode = CURLE_OK

FooBar == HLine(<<"F","o","o">>, TRUE, <<Bare(<<"b","a","r">>)>>)
CookieA1Path ==
    HLine(SetCookieName, TRUE,
          <<Seg(<<"a">>, TRUE, <<"1">>), Seg(<<"P","a","t","h">>, TRUE, <<"/">>)>>)
CookieSidHttpOnly ==
    HLine(SetCookieName, TRUE,
          <<Seg(<<"s","i","d">>, TRUE, <<"a","b","c">>),
            Seg(<<"P","a","t","h">>, TRUE, <<"/">>),
            Bare(<<"H","t","t","p","O","n","l","y">>)>>)

\* C6: after a transport-successful exchange execute never throws, whatever
\* the header block holds; it always returns a Response.
C6_ParseNeverThrows == Parsed => ~threw

\* C7: a status line "HTTP/x.y CODE" with no reason phrase gives status_code
\* CODE and an empty status_message; with a reason phrase the message is the
\* phrase, the carriage return removed.
C7_StatusLine ==
    (Parsed /\ ~input.empty /\ input.status.wf) =>
        /\ ~threw
        /\ response.code = DecValue(input.status.code)
        /\ response.message =
               (IF input.status.hasReason THEN input.status.reason ELSE <<>>)

\* C8: Response.headers holds exactly one entry per distinct lowercased name
\* among the lines after the status line, with the value of the name's last
\* occurrence; the status line contributes no entry.
C8_HeadersExact ==
    (Parsed /\ ~threw /\ ~input.empty /\ \A i \in 1..Len(input.lines) : input.lines[i].sp)
        => response.headers = ExpectedHeaders(input.lines)

-----------------------------------------------------------------------------
(* The user facade: json::parse of the body, and the twelve operations *)

\* a parsed document: t is "num", "str", "arr" or "obj"; an object's members
\* are keys[i] : kids[i]
JVal(t, n, str, keys, kids) == [t |-> t, n |-> n, s |-> str, keys |-> keys, kids |-> kids]
JFail == [ok |-> FALSE, pos |-> 0, val |-> JVal("null", 0, <<>>, <<>>, <<>>)]
JOk(pos, val) == [ok |-> TRUE, pos |-> pos, val |-> val]

\* a string literal starting at the quote at place i
JString(s, i) ==
    IF i > Len(s) \/ s[i] # "\"" THEN JFail
    ELSE LET ends == {j \in (i+1)..Len(s) : s[j] = "\""}
         IN  IF ends = {} THEN JFail
             ELSE LET j == CHOOSE e \in ends : \A o \in ends : e <= o
                  IN  JOk(j + 1, JVal("str", 0, SubSeq(s, i + 1, j - 1), <<>>, <<>>))

\* an unsigned integer starting at place i
JNumber(s, i) ==
    LET run == {j \in i..Len(s) : \A k \in i..j : IsDigit(s[k])}
    IN  IF run = {} THEN JFail
        ELSE JOk(i + Cardinality(run),
                 JVal("num", DecValue(SubSeq(s, i, i + Cardinality(run) - 1)),
                      <<>>, <<>>, <<>>))

RECURSIVE JValue(_, _), JMembers(_, _, _, _), JElems(_, _, _)
JValue(s, i) ==
    IF i > Len(s) THEN JFail
    ELSE CASE s[i] = "{" ->
                IF i + 1 <= Len(s) /\ s[i + 1] = "}"
                THEN JOk(i + 2, JVal("obj", 0, <<>>, <<>>, <<>>))
                ELSE JMembers(s, i + 1, <<>>, <<>>)
           [] s[i] = "[" ->
                IF i + 1 <= Len(s) /\ s[i + 1] = "]"
                THEN JOk(i + 2, JVal("arr", 0, <<>>, <<>>, <<>>))
                ELSE JElems(s, i + 1, <<>>)
           [] s[i] = "\"" -> JString(s, i)
           [] IsDigit(s[i]) -> JNumber(s, i)
           [] OTHER -> JFail

JMembers(s, i, keys, kids) ==
    LET k == JString(s, i)
    IN  IF ~k.ok \/ k.pos > Len(s) \/ s[k.pos] # ":" THEN JFail
        ELSE LET v == JValue(s, k.pos + 1)
                 keys2 == Append(keys, k.val.s)
                 kids2 == Append(kids, v.val)
             IN  IF ~v.ok \/ v.pos > Len(s) THEN JFail
                 ELSE IF s[v.pos] = "," THEN JMembers(s, v.pos + 1, keys2, kids2)
                 ELSE IF s[v.pos] = "}"
                      THEN JOk(v.pos + 1, JVal("obj", 0, <<>>, keys2, kids2))
                      ELSE JFail

JElems(s, i, kids) ==
    LET v == JValue(s, i)
        kids2 == Append(kids, v.val)
    IN  IF ~v.ok \/ v.pos > Len(s) THEN JFail
        ELSE IF s[v.pos] = "," THEN JElems(s, v.pos + 1, kids2)
        ELSE IF s[v.pos] = "]" THEN JOk(v.pos + 1, JVal("arr", 0, <<>>, <<>>, kids2))
        ELSE JFail

\* json::parse(text): the document, or a parse_error exception (empty text
\* included)
JsonParse(text) ==
    LET r == JValue(text, 1)
    IN  IF r.ok /\ r.pos = Len(text) + 1 THEN [throws |-> FALSE, val |-> r.val]
        ELSE [throws |-> TRUE, val |-> JFail.val]

\* doc[key] converted to the C++ type t ("num" for int, "str" for
\* std::string): a type_error exception unless doc is an object holding key
\* with a value of that type
JsonField(doc, key, t) ==
    LET at == {i \in 1..Len(doc.keys) : doc.keys[i] = key}
    IN  IF doc.t = "obj" /\ at # {} /\ doc.kids[CHOOSE i \in at : TRUE].t = t
        THEN [throws |-> FALSE, val |-> doc.kids[CHOOSE i \in at : TRUE]]
        ELSE [throws |-> TRUE, val |-> JFail.val]

\* s.find(w, from): the first 0-based place >= from where w occurs, or -1
FindWord(s, w, from) ==
    LET at == {p \in from..(Len(s) - Len(w)) : SubSeq(s, p + 1, p + Len(w)) = w}
    IN  IF at = {} THEN -1 ELSE CHOOSE p \in at : \A q \in at : p <= q

\* for (pos = data.find(word); pos != npos; pos = data.find(word, pos + len)) ++count
RECURSIVE CountWord(_, _, _)
CountWord(s, w, from) ==
    LET pos == FindWord(s, w, from)
    IN  IF pos = -1 THEN 0 ELSE 1 + CountWord(s, w, pos + Len(w))

BodyEmptyObject == \* {}
    <<"{","}">>
BodyCount0 == \* {"count":0}
    <<"{","\"","c","o","u","n","t","\"",":","0","}">>
BodyCount42 == \* {"count":42}
    <<"{","\"","c","o","u","n","t","\"",":","4","2","}">>
BodyNoGroups == \* {"data":[]}
    <<"{","\"","d","a","t","a","\"",":","[","]","}">>
BodyOneGroup == \* {"data":[{"group":1}]}
    <<"{","\"","d","a","t","a","\"",":","[","{","\"","g","r","o","u","p","\"",":","1","}","]","}">>
BodyProfile == \* {"name":"Al"}
    <<"{","\"","n","a","m","e","\"",":","\"","A","l","\"","}">>
BodyNotJson == \* oops
    <<"o","o","p","s">>
GroupWord == <<"g","r","o","u","p">>
CountKey == <<"c","o","u","n","t">>
NameKey == <<"n","a","m","e">>
DisplayNameKey == <<"d","i","s","p","l","a","y","N","a","m","e">>
DescriptionKey == <<"d","e","s","c","r","i","p","t","i","o","n">>

Bodies == {<<>>, BodyEmptyObject, BodyCount0, BodyCount42, BodyNoGroups,
           BodyOneGroup, BodyProfile, BodyNotJson}

DocumentOps == {"GetFriends", "GetFollowers", "GetFollowings", "GetFriendsOnline",
                "GetGroups"}
CountOps == {"GetFriendsCount", "GetFollowersCount", "GetFollowingsCount"}
FieldOps == {"GetUsername", "GetDisplayName", "GetDescription"}
FieldKey(op) ==
    CASE op = "GetUsername" -> NameKey
      [] op = "GetDisplayName" -> DisplayNameKey
      [] op = "GetDescription" -> DescriptionKey

\* what the engine may do during one facade call: curl_easy_init succeeds,
\* and curl_easy_perform returns a code and, on CURLE_OK, delivers a body; or
\* curl_easy_init returns nullptr and curl_easy_perform refuses the handle
FacadeReplies ==
    [initOk : {TRUE}, curlCode : CurlCodes, body : Bodies]
    \cup [initOk : {FALSE}, curlCode : {CURLE_BAD_FUNCTION_ARGUMENT}, body : {<<>>}]

\* Request req(url); req.set_header("Referer", ...); req.initalize();
\* Response res = req.get();  The result of initalize is not looked at: on
\* a null session the engine refuses every call.
FacadeGet(reply) ==
    IF reply.initOk
    THEN Execute([curlCode |-> reply.curlCode, headerData |-> OkBlock,
                  responseData |-> reply.body])
    ELSE Execute([curlCode |-> reply.curlCode, headerData |-> <<>>,
                  responseData |-> <<>>])

\* return json::parse(res.data);
DocumentResult(res) ==
    IF JsonParse(res.data).throws THEN Thrown
    ELSE [kind |-> "document", int |-> 0, text |-> res.data]

\* return json::parse(res.data)["count"];
CountResult(res) ==
    LET doc == JsonParse(res.data)
        f == JsonField(doc.val, CountKey, "num")
    IN  IF doc.throws \/ f.throws THEN Thrown
        ELSE [kind |-> "int", int |-> f.val.n, text |-> <<>>]

\* return json::parse(res.data)["name"]; (or "displayName", "description")
FieldResult(res, key) ==
    LET doc == JsonParse(res.data)
        f == JsonField(doc.val, key, "str")
    IN  IF doc.throws \/ f.throws THEN Thrown
        ELSE [kind |-> "string", int |-> 0, text |-> f.val.s]

\* GetGroupsCount: the occurrences of "group" in res.data
GroupsCountResult(res) ==
    [kind |-> "int", int |-> CountWord(res.data, GroupWord, 0), text |-> <<>>]

Facade(op, reply, result) ==
    /\ fpc = "idle"
    /\ fop' = op /\ freply' = reply /\ fresult' = result
    /\ fpc' = "returned"
    /\ UNCHANGED <<reqVars, parseVars>>

GetDocument ==
    \E op \in DocumentOps, reply \in FacadeReplies :
        LET g == FacadeGet(reply)
        IN  Facade(op, reply, IF g.threw THEN Thrown ELSE DocumentResult(g.response))

GetCount ==
    \E op \in CountOps, reply \in FacadeReplies :
        LET g == FacadeGet(reply)
        IN  Facade(op, reply, IF g.threw THEN Thrown ELSE CountResult(g.response))

GetField ==
    \E op \in FieldOps, reply \in FacadeReplies :
        LET g == FacadeGet(reply)
        IN  Facade(op, reply,
                   IF g.threw THEN Thrown ELSE FieldResult(g.response, FieldKey(op)))

GetGroupsCount ==
    \E reply \in FacadeReplies :
        LET g == FacadeGet(reply)
        IN  Facade("GetGroupsCount", reply,
                   IF g.threw THEN Thrown ELSE GroupsCountResult(g.response))

InitFacade == FacIdle /\ ReqIdle /\ ParseIdle

NextFacade == GetDocument \/ GetCount \/ GetField \/ GetGroupsCount

SpecFacade == InitFacade /\ [][NextFacade]_vars

\* the engine returned a non-OK transport code during the call
TransportFailed == fpc = "returned" /\ freply.curlCode # CURLE_OK

\* C3: when the engine returns a non-OK transport code the caller of any
\* facade operation receives an error, never a normal count or document.
C3_TransportFailureSurfaced == TransportFailed => fresult.kind = "exception"

=============================================================================
